---- MODULE Spec2Model ----
(***************************************************************************)
(* Medicine scan matching of Mero-Ausadi (backend/services/ocr_service.py  *)
(* with the catalog queries of backend/services/medicine_service.py).      *)
(*                                                                         *)
(* Strings are sequences of character codes (ASCII), so that lower(),      *)
(* isupper(), strip(), split() and the regular expressions are computed    *)
(* character by character.  Confidence scores are Python floats; they are  *)
(* represented by integers in units of 1/10000, an order-preserving image  *)
(* of the doubles the code produces (see Times08).                         *)
(***************************************************************************)
EXTENDS Integers, Sequences, FiniteSets, TLC

(***************************************************************************)
(* Characters                                                              *)
(***************************************************************************)
NL == 10

IsUpperChar(c) == c >= 65 /\ c <= 90
IsLowerChar(c) == c >= 97 /\ c <= 122
IsDigit(c)     == c >= 48 /\ c <= 57
\* \s of the re module and the whitespace of str.strip() (ASCII part):
\* space, \t \n \v \f \r and the separators \x1c..\x1f
IsSpace(c)     == c = 32 \/ (c >= 9 /\ c <= 13) \/ (c >= 28 /\ c <= 31)
\* \w of the re module (ASCII part): letters, digits, underscore
IsWord(c)      == IsUpperChar(c) \/ IsLowerChar(c) \/ IsDigit(c) \/ c = 95

LowerChar(c) == IF IsUpperChar(c) THEN c + 32 ELSE c

(***************************************************************************)
(* str methods                                                             *)
(***************************************************************************)
\* str.lower()
lower(s) == [i \in 1..Len(s) |-> LowerChar(s[i])]

\* s[i:j] with 1-based inclusive bounds, empty when i > j
Slice(s, i, j) == IF i > j THEN <<>> ELSE SubSeq(s, i, j)

\* needle in hay
Contains(hay, needle) ==
    \E i \in 1..(Len(hay) - Len(needle) + 1) :
        \A k \in 1..Len(needle) : hay[i + k - 1] = needle[k]

\* str.strip(): drop leading and trailing whitespace
strip(s) ==
    LET keep == {i \in 1..Len(s) : ~IsSpace(s[i])}
    IN  IF keep = {} THEN <<>>
        ELSE LET lo == CHOOSE i \in keep : \A j \in keep : i <= j
                 hi == CHOOSE i \in keep : \A j \in keep : i >= j
             IN  SubSeq(s, lo, hi)

\* str.isupper(): at least one cased character and no lower-case one
isupper(s) ==
    /\ \E i \in 1..Len(s) : IsUpperChar(s[i])
    /\ \A i \in 1..Len(s) : ~IsLowerChar(s[i])

\* str.split('\n'): the pieces between the newlines, empty pieces included
RECURSIVE SplitFrom(_, _)
SplitFrom(s, from) ==
    LET nls == {i \in from..Len(s) : s[i] = NL}
    IN  IF nls = {} THEN << Slice(s, from, Len(s)) >>
        ELSE LET p == CHOOSE i \in nls : \A j \in nls : i <= j
             IN  << Slice(s, from, p - 1) >> \o SplitFrom(s, p + 1)

split_lines(s) == SplitFrom(s, 1)

(***************************************************************************)
(* OCRService.clean_extracted_text                                         *)
(***************************************************************************)
\* re.sub(r'\s+', ' ', s): every maximal whitespace run becomes one space
collapse_whitespace(s) ==
    LET starts == SelectSeq([i \in 1..Len(s) |-> i],
                            LAMBDA i : \/ ~IsSpace(s[i])
                                       \/ i = 1
                                       \/ ~IsSpace(s[i - 1]))
    IN  [k \in 1..Len(starts) |-> IF IsSpace(s[starts[k]]) THEN 32 ELSE s[starts[k]]]

\* the punctuation of the character class: - . , : ; ( ) [ ] { }
kept_punctuation == {45, 46, 44, 58, 59, 40, 41, 91, 93, 123, 125}

\* the characters that [^\w\s\-\.\,\:\;\(\)\[\]\{\}] does not match
IsKept(c) == IsWord(c) \/ IsSpace(c) \/ c \in kept_punctuation

\* re.sub(r'[^\w\s\-\.\,\:\;\(\)\[\]\{\}]', '', s)
remove_special_characters(s) == SelectSeq(s, IsKept)

\* the function without its third substitution (the second \s+ collapse)
clean_without_second_collapse(text) ==
    strip(remove_special_characters(collapse_whitespace(strip(text))))

\* the function with "return text" in place of "return text.strip()"
clean_without_final_strip(text) ==
    collapse_whitespace(remove_special_characters(collapse_whitespace(strip(text))))

\* the three substitutions and the final strip, on a string
clean_extracted_text(text) ==
    strip(collapse_whitespace(remove_special_characters(
              collapse_whitespace(strip(text)))))

(***************************************************************************)
(* Keyword lists of extract_medicine_info / extract_potential_names        *)
(***************************************************************************)
\* ['ltd', 'inc', 'corp', 'pharma', 'pharmaceuticals', 'company']
manufacturer_keywords ==
    { <<108, 116, 100>>, <<105, 110, 99>>, <<99, 111, 114, 112>>,
      <<112, 104, 97, 114, 109, 97>>,
      <<112, 104, 97, 114, 109, 97, 99, 101, 117, 116, 105, 99, 97, 108, 115>>,
      <<99, 111, 109, 112, 97, 110, 121>> }

\* ['tablet', 'capsule', 'injection', 'mg', 'mcg', 'ml']
skip_words ==
    { <<116, 97, 98, 108, 101, 116>>, <<99, 97, 112, 115, 117, 108, 101>>,
      <<105, 110, 106, 101, 99, 116, 105, 111, 110>>,
      <<109, 103>>, <<109, 99, 103>>, <<109, 108>> }

\* (?:mg|mcg|g|ml|IU) under re.IGNORECASE, in the order of the alternation
strength_units ==
    << <<109, 103>>, <<109, 99, 103>>, <<103>>, <<109, 108>>, <<105, 117>> >>

(***************************************************************************)
(* Regular expressions of extract_medicine_info                            *)
(***************************************************************************)
\* \b between positions i-1 and i of s (i in 1..Len(s)+1)
WordBoundary(s, i) ==
    LET before == i > 1 /\ IsWord(s[i - 1])
        after  == i <= Len(s) /\ IsWord(s[i])
    IN  before # after

\* end of the maximal digit run that starts at i (i - 1 when s[i] is no digit)
DigitsEnd(s, i) ==
    LET stops == {j \in i..Len(s) : ~IsDigit(s[j])}
    IN  IF stops = {} THEN Len(s)
        ELSE (CHOOSE j \in stops : \A k \in stops : j <= k) - 1

\* end of the maximal whitespace run that starts at i
SpacesEnd(s, i) ==
    LET stops == {j \in i..Len(s) : ~IsSpace(s[j])}
    IN  IF stops = {} THEN Len(s)
        ELSE (CHOOSE j \in stops : \A k \in stops : j <= k) - 1

\* the match below with \d{12,13}: only full-length product codes
BarcodeMatchAtLong(s, i) ==
    /\ IsDigit(s[i])
    /\ WordBoundary(s, i)
    /\ LET e == DigitsEnd(s, i)
       IN  /\ e - i + 1 >= 12
           /\ e - i + 1 <= 13
           /\ WordBoundary(s, e + 1)

\* the match below without its leading \b: a digit run glued to a letter
BarcodeMatchAtGlued(s, i) ==
    /\ IsDigit(s[i])
    /\ (i = 1 \/ ~IsDigit(s[i - 1]))
    /\ LET e == DigitsEnd(s, i)
       IN  /\ e - i + 1 >= 8
           /\ e - i + 1 <= 13
           /\ WordBoundary(s, e + 1)

\* re.search(r'\b\d{8,13}\b', line) matches at i.  All matched characters
\* are word characters, so both \b hold exactly when the match is a whole
\* digit run flanked by non-word characters.
BarcodeMatchAt(s, i) ==
    /\ IsDigit(s[i])
    /\ WordBoundary(s, i)
    /\ LET e == DigitsEnd(s, i)
       IN  /\ e - i + 1 >= 8
           /\ e - i + 1 <= 13
           /\ WordBoundary(s, e + 1)

barcode_search(s) ==
    LET starts == {i \in 1..Len(s) : BarcodeMatchAt(s, i)}
    IN  IF starts = {} THEN <<>>
        ELSE LET i == CHOOSE x \in starts : \A y \in starts : x <= y
             IN  SubSeq(s, i, DigitsEnd(s, i))

\* the match below without re.IGNORECASE (mg|mcg|g|ml|IU as written)
UnitEndsAtCased(s, u) ==
    LET units == << <<109, 103>>, <<109, 99, 103>>, <<103>>, <<109, 108>>, <<73, 85>> >>
        hits  == {k \in 1..Len(units) :
                    /\ u + Len(units[k]) - 1 <= Len(s)
                    /\ SubSeq(s, u, u + Len(units[k]) - 1) = units[k]
                    /\ WordBoundary(s, u + Len(units[k]))}
    IN  IF hits = {} THEN 0
        ELSE LET k == CHOOSE x \in hits : \A y \in hits : x <= y
             IN  u + Len(units[k]) - 1

\* the unit alternatives that match at position u and are followed by \b
UnitEndsAt(s, u) ==
    LET hits == {k \in 1..Len(strength_units) :
                    /\ u + Len(strength_units[k]) - 1 <= Len(s)
                    /\ lower(SubSeq(s, u, u + Len(strength_units[k]) - 1))
                           = strength_units[k]
                    /\ WordBoundary(s, u + Len(strength_units[k]))}
    IN  IF hits = {} THEN 0
        ELSE LET k == CHOOSE x \in hits : \A y \in hits : x <= y
             IN  u + Len(strength_units[k]) - 1

\* end of the strength match that starts at i, 0 when there is none:
\* \b \d+ (?:\.\d+)? \s* unit \b, the optional decimal part tried first
StrengthEndAt(s, i) ==
    IF ~(IsDigit(s[i]) /\ WordBoundary(s, i)) THEN 0
    ELSE LET d1      == DigitsEnd(s, i)
             hasDec  == /\ d1 + 2 <= Len(s)
                        /\ s[d1 + 1] = 46
                        /\ IsDigit(s[d1 + 2])
             d2      == IF hasDec THEN DigitsEnd(s, d1 + 2) ELSE d1
             withDec == IF hasDec THEN UnitEndsAt(s, SpacesEnd(s, d2 + 1) + 1)
                        ELSE 0
         IN  IF withDec # 0 THEN withDec
             ELSE UnitEndsAt(s, SpacesEnd(s, d1 + 1) + 1)

\* re.search(r'\b\d+(?:\.\d+)?\s*(?:mg|mcg|g|ml|IU)\b', line, re.IGNORECASE)
strength_search(s) ==
    LET starts == {i \in 1..Len(s) : StrengthEndAt(s, i) # 0}
    IN  IF starts = {} THEN <<>>
        ELSE LET i == CHOOSE x \in starts : \A y \in starts : x <= y
             IN  SubSeq(s, i, StrengthEndAt(s, i))

(***************************************************************************)
(* OCRService.extract_potential_names                                      *)
(***************************************************************************)
EmptyStr == <<>>

\* a value that is no string (Python None, SQL NULL); -1 is no character
None == << -1 >>

\* the loop body with the brand test "line.isupper()" alone, without
\* "len(line) <= 30"
NamesStepNoLengthCap(names, raw) ==
    LET line == strip(raw)
    IN  IF line = EmptyStr \/ Len(line) < 3 THEN names
        ELSE IF \E w \in skip_words : Contains(lower(line), w) THEN names
        ELSE IF isupper(line)
             THEN IF names.brand_name = EmptyStr
                  THEN [names EXCEPT !.brand_name = line]
                  ELSE names
        ELSE IF Len(line) > 10 /\ Len(line) <= 50
             THEN IF names.generic_name = EmptyStr
                  THEN [names EXCEPT !.generic_name = line]
                  ELSE names
        ELSE names

\* one pass of the for loop body over the (unstripped) line raw
NamesStep(names, raw) ==
    LET line == strip(raw)
    IN  IF line = EmptyStr \/ Len(line) < 3 THEN names
        ELSE IF \E w \in skip_words : Contains(lower(line), w) THEN names
        ELSE IF Len(line) <= 30 /\ isupper(line)
             THEN IF names.brand_name = EmptyStr
                  THEN [names EXCEPT !.brand_name = line]
                  ELSE names
        ELSE IF Len(line) > 10 /\ Len(line) <= 50
             THEN IF names.generic_name = EmptyStr
                  THEN [names EXCEPT !.generic_name = line]
                  ELSE names
        ELSE names

RECURSIVE NamesLoop(_, _, _)
NamesLoop(lines, k, names) ==
    IF k > Len(lines) THEN names
    ELSE NamesLoop(lines, k + 1, NamesStep(names, lines[k]))

extract_potential_names(lines) ==
    NamesLoop(lines, 1, [brand_name |-> EmptyStr, generic_name |-> EmptyStr])

(***************************************************************************)
(* OCRService.extract_medicine_info                                        *)
(***************************************************************************)
DefaultInfo ==
    [ brand_name   |-> EmptyStr,
      generic_name |-> EmptyStr,
      strength     |-> EmptyStr,
      manufacturer |-> EmptyStr,
      barcode      |-> EmptyStr,
      confidence_score |-> 0 ]

\* the loop body without the tests "and not info[...]": the last line wins
InfoStepLastWins(info, raw) ==
    LET line == strip(raw)
    IN  IF line = EmptyStr THEN info
        ELSE LET bm == barcode_search(line)
                 sm == strength_search(line)
                 kw == \E w \in manufacturer_keywords : Contains(lower(line), w)
             IN  [ info EXCEPT
                     !.barcode      = IF bm # <<>> THEN bm ELSE @,
                     !.strength     = IF sm # <<>> THEN sm ELSE @,
                     !.manufacturer = IF kw THEN line ELSE @ ]

\* the loop body with "keyword in line" instead of "keyword in line.lower()"
InfoStepCasedKeywords(info, raw) ==
    LET line == strip(raw)
    IN  IF line = EmptyStr THEN info
        ELSE LET bm == barcode_search(line)
                 sm == strength_search(line)
                 kw == \E w \in manufacturer_keywords : Contains(line, w)
             IN  [ info EXCEPT
                     !.barcode      = IF bm # <<>> /\ @ = EmptyStr THEN bm ELSE @,
                     !.strength     = IF sm # <<>> /\ @ = EmptyStr THEN sm ELSE @,
                     !.manufacturer = IF kw /\ @ = EmptyStr THEN line ELSE @ ]

\* one pass of the for loop body: each field is set only while it is empty
InfoStep(info, raw) ==
    LET line == strip(raw)
    IN  IF line = EmptyStr THEN info
        ELSE LET bm == barcode_search(line)
                 sm == strength_search(line)
                 kw == \E w \in manufacturer_keywords : Contains(lower(line), w)
             IN  [ info EXCEPT
                     !.barcode      = IF bm # <<>> /\ @ = EmptyStr THEN bm ELSE @,
                     !.strength     = IF sm # <<>> /\ @ = EmptyStr THEN sm ELSE @,
                     !.manufacturer = IF kw /\ @ = EmptyStr THEN line ELSE @ ]

RECURSIVE InfoLoop(_, _, _)
InfoLoop(lines, k, info) ==
    IF k > Len(lines) THEN info
    ELSE InfoLoop(lines, k + 1, InfoStep(info, lines[k]))

\* text.split raises on an argument that is no string, before any field is
\* set, and the except clause returns info
extract_medicine_info(text) ==
    IF text = None THEN DefaultInfo
    ELSE LET lines == split_lines(text)
             info  == InfoLoop(lines, 1, DefaultInfo)
             names == extract_potential_names(lines)
         IN  [ info EXCEPT !.brand_name   = names.brand_name,
                           !.generic_name = names.generic_name ]

(***************************************************************************)
(* String similarity of the fuzzywuzzy library (fuzz.ratio and             *)
(* fuzz.partial_ratio), on the 0..100 scale: the edit-distance ratio       *)
(* 2*M/T with M the length of a longest common subsequence, and the best   *)
(* ratio of the shorter string against a window of the longer one.         *)
(***************************************************************************)
Max2(a, b) == IF a >= b THEN a ELSE b

\* int(round(n / d)), Python rounding (ties to even)
RoundHalfEven(n, d) ==
    LET q == n \div d
        r == n % d
    IN  IF 2 * r < d THEN q
        ELSE IF 2 * r > d THEN q + 1
        ELSE IF q % 2 = 0 THEN q ELSE q + 1

SetMax(S) == CHOOSE x \in S : \A y \in S : x >= y

\* row i of the longest-common-subsequence table from row i - 1 (prev), for
\* the character c = a[i]: cell j is the larger of prev[j] and of
\* prev[k - 1] + 1 over the positions k <= j of b that hold c
LCSRow(c, b, prev) ==
    SubSeq([ j \in 1..Len(b) |->
               SetMax({prev[j]} \cup
                      { (IF k = 1 THEN 0 ELSE prev[k - 1]) + 1 :
                          k \in { n \in 1..j : b[n] = c } }) ],
           1, Len(b))

RECURSIVE LCSRows(_, _, _, _)
LCSRows(a, b, i, prev) ==
    IF i > Len(a) THEN prev
    ELSE LCSRows(a, b, i + 1, LCSRow(a[i], b, prev))

LCSLen(a, b) ==
    IF Len(a) = 0 \/ Len(b) = 0 THEN 0
    ELSE LCSRows(a, b, 1, SubSeq([j \in 1..Len(b) |-> 0], 1, Len(b)))[Len(b)]

\* fuzz.ratio(s1, s2)
ratio(s1, s2) ==
    IF Len(s1) = 0 \/ Len(s2) = 0 THEN 0
    ELSE RoundHalfEven(200 * LCSLen(s1, s2), Len(s1) + Len(s2))

\* fuzz.partial_ratio(s1, s2)
partial_ratio(s1, s2) ==
    IF Len(s1) = 0 \/ Len(s2) = 0 THEN 0
    ELSE LET shorter == IF Len(s1) <= Len(s2) THEN s1 ELSE s2
             longer  == IF Len(s1) <= Len(s2) THEN s2 ELSE s1
         IN  IF Contains(longer, shorter) THEN 100
             ELSE SetMax({ ratio(shorter, SubSeq(longer, i, i + Len(shorter) - 1)) :
                             i \in 1..(Len(longer) - Len(shorter) + 1) })

(***************************************************************************)
(* Confidence scores: Python floats, in units of 1/10000                   *)
(***************************************************************************)
\* similarity / 100 for a similarity on the 0..100 scale
Percent(similarity) == similarity * 100

\* the literals 1.0, 0.9, 0.0 of calculate_name_confidence
ExactConfidence   == 10000
PartialConfidence == 9000
NoConfidence      == 0

\* the function with the containment test before the equality test
name_confidence_containment_first(extracted_name, database_name) ==
    IF \/ extracted_name = EmptyStr \/ extracted_name = None
       \/ database_name = EmptyStr \/ database_name = None THEN NoConfidence
    ELSE IF \/ Contains(lower(database_name), lower(extracted_name))
            \/ Contains(lower(extracted_name), lower(database_name))
         THEN PartialConfidence
    ELSE IF lower(extracted_name) = lower(database_name) THEN ExactConfidence
    ELSE Percent(ratio(lower(extracted_name), lower(database_name)))

\* OCRService.calculate_name_confidence; "not name" holds for "" and None
calculate_name_confidence(extracted_name, database_name) ==
    IF \/ extracted_name = EmptyStr \/ extracted_name = None
       \/ database_name = EmptyStr \/ database_name = None THEN NoConfidence
    ELSE IF lower(extracted_name) = lower(database_name) THEN ExactConfidence
    ELSE IF \/ Contains(lower(database_name), lower(extracted_name))
            \/ Contains(lower(extracted_name), lower(database_name))
         THEN PartialConfidence
    ELSE Percent(ratio(lower(extracted_name), lower(database_name)))

\* thresholds and weights of search_medicines_by_ocr_text
BarcodeConfidence     == 9500
NameThreshold         == 7000
ManufacturerThreshold == 8000
FuzzyThreshold        == 70
FuzzyPageLimit        == 100

\* confidence * 0.8 in double arithmetic.  For a confidence of k/100 the
\* product is either the double nearest to 0.008*k or the next double above
\* it (k = 81, 86..93); the latter is one unit above here, which keeps every
\* comparison between two scores of the code.
\* a weight of 1.2 in place of 0.8
Times12(confidence) == (confidence * 12) \div 10

Times08(confidence) ==
    LET exact == (confidence * 8) \div 10
    IN  IF confidence \in {8100, 8600, 8700, 8800, 8900, 9000, 9100, 9200, 9300}
        THEN exact + 1
        ELSE exact

(***************************************************************************)
(* Catalog queries (MedicineService).  A catalog is the sequence of the    *)
(* Medicine rows in the order in which the database returns them; no query *)
(* has an ORDER BY.  A row is [id, brand_name, generic_name, manufacturer,  *)
(* barcode], barcode = NoBarcode for NULL.                                 *)
(***************************************************************************)
NoBarcode == <<>>

\* lst[:n + 1]
TakeOneMore(lst, n) == IF n + 1 >= Len(lst) THEN lst ELSE SubSeq(lst, 1, n + 1)

\* lst[:n] for n >= 0
Take(lst, n) == IF n >= Len(lst) THEN lst ELSE SubSeq(lst, 1, n)

\* column ILIKE '%query%' (the queries of the model hold no % or _)
\* NULL ILIKE anything is not true
ilike(column, query) == column # None /\ Contains(lower(column), lower(query))

\* MedicineService.get_medicines(db, limit=n): offset 0, the first n rows
get_medicines(db, n) == Take(db, n)

\* MedicineService.get_medicine_by_barcode: .first() as a list of 0 or 1 rows
get_medicine_by_barcode(db, barcode) ==
    Take(SelectSeq(db, LAMBDA m : m.barcode = barcode), 1)

\* MedicineService.search_medicines: any of the three columns, then LIMIT
search_medicines(db, query, n) ==
    Take(SelectSeq(db, LAMBDA m : \/ ilike(m.brand_name, query)
                                  \/ ilike(m.generic_name, query)
                                  \/ ilike(m.manufacturer, query)), n)

(***************************************************************************)
(* The five strategies of OCRService.search_medicines_by_ocr_text, each    *)
(* as the list of candidates it appends to results                         *)
(***************************************************************************)
Candidate(m, score, matched, tag) ==
    [ medicine         |-> m,
      confidence_score |-> score,
      matched_text     |-> matched,
      match_type       |-> tag ]

\* Strategy 1 with the confidence 1.0 that SearchService.search_by_barcode uses
barcode_strategy_exact(db, info) ==
    IF info.barcode = EmptyStr THEN <<>>
    ELSE LET found == get_medicine_by_barcode(db, info.barcode)
         IN  IF found = <<>> THEN <<>>
             ELSE << Candidate(found[1], ExactConfidence, info.barcode, "barcode") >>

\* Strategy 1
barcode_strategy(db, info) ==
    IF info.barcode = EmptyStr THEN <<>>
    ELSE LET found == get_medicine_by_barcode(db, info.barcode)
         IN  IF found = <<>> THEN <<>>
             ELSE << Candidate(found[1], BarcodeConfidence, info.barcode, "barcode") >>

\* Strategy 2
brand_name_strategy(db, info, n) ==
    IF info.brand_name = EmptyStr THEN <<>>
    ELSE LET confidence(m) == calculate_name_confidence(info.brand_name, m.brand_name)
             kept == SelectSeq(search_medicines(db, info.brand_name, n),
                               LAMBDA m : confidence(m) > NameThreshold)
         IN  [ i \in 1..Len(kept) |->
                 Candidate(kept[i], confidence(kept[i]), kept[i].brand_name,
                           "brand_name") ]

\* Strategy 3
generic_name_strategy(db, info, n) ==
    IF info.generic_name = EmptyStr THEN <<>>
    ELSE LET confidence(m) == calculate_name_confidence(info.generic_name, m.generic_name)
             kept == SelectSeq(search_medicines(db, info.generic_name, n),
                               LAMBDA m : confidence(m) > NameThreshold)
         IN  [ i \in 1..Len(kept) |->
                 Candidate(kept[i], confidence(kept[i]), kept[i].generic_name,
                           "generic_name") ]

\* Strategy 4 with the score appended as it is, without the factor 0.8
manufacturer_strategy_unweighted(db, info, n) ==
    IF info.manufacturer = EmptyStr THEN <<>>
    ELSE LET confidence(m) == calculate_name_confidence(info.manufacturer, m.manufacturer)
             kept == SelectSeq(search_medicines(db, info.manufacturer, n),
                               LAMBDA m : confidence(m) > ManufacturerThreshold)
         IN  [ i \in 1..Len(kept) |->
                 Candidate(kept[i], confidence(kept[i]),
                           kept[i].manufacturer, "manufacturer") ]

\* Strategy 4
manufacturer_strategy(db, info, n) ==
    IF info.manufacturer = EmptyStr THEN <<>>
    ELSE LET confidence(m) == calculate_name_confidence(info.manufacturer, m.manufacturer)
             kept == SelectSeq(search_medicines(db, info.manufacturer, n),
                               LAMBDA m : confidence(m) > ManufacturerThreshold)
         IN  [ i \in 1..Len(kept) |->
                 Candidate(kept[i], Times08(confidence(kept[i])),
                           kept[i].manufacturer, "manufacturer") ]

\* the three similarities of one row, as <<brand, generic, manufacturer>>
Similarities(txt, m) ==
    << partial_ratio(lower(txt), lower(m.brand_name)),
       partial_ratio(lower(txt), lower(m.generic_name)),
       partial_ratio(lower(txt), lower(m.manufacturer)) >>

max_similarity(sims) == Max2(Max2(sims[1], sims[2]), sims[3])

\* OCRService.get_best_match: max() returns the first of the largest scores
get_best_match(sims, m) ==
    IF sims[1] >= sims[2] /\ sims[1] >= sims[3] THEN m.brand_name
    ELSE IF sims[2] >= sims[3] THEN m.generic_name
    ELSE m.manufacturer

\* lines 237-239 call .lower() on the three columns of the row: a column
\* without a value raises AttributeError
ScoringFails(m) ==
    m.brand_name = None \/ m.generic_name = None \/ m.manufacturer = None

\* Strategy 5 over the rows of one page: a candidate for every row whose
\* largest similarity is above the threshold, in the order of the rows
FuzzyFrom(rows, txt) ==
    LET kept == SelectSeq(rows, LAMBDA m :
                    max_similarity(Similarities(txt, m)) > FuzzyThreshold)
    IN  [ i \in 1..Len(kept) |->
            Candidate(kept[i], Percent(max_similarity(Similarities(txt, kept[i]))),
                      get_best_match(Similarities(txt, kept[i]), kept[i]), "fuzzy") ]

\* the loop without the test "max_similarity > 70"
fuzzy_strategy_unfiltered(db, txt) ==
    LET rows == get_medicines(db, FuzzyPageLimit)
    IN  [ i \in 1..Len(rows) |->
            Candidate(rows[i], Percent(max_similarity(Similarities(txt, rows[i]))),
                      get_best_match(Similarities(txt, rows[i]), rows[i]), "fuzzy") ]

\* the loop over the whole table, without limit=100
fuzzy_strategy_whole_table(db, txt) == FuzzyFrom(db, txt)

fuzzy_strategy(db, txt) == FuzzyFrom(get_medicines(db, FuzzyPageLimit), txt)

(***************************************************************************)
(* Aggregation                                                             *)
(***************************************************************************)
\* OCRService.remove_duplicate_results: the first result of each medicine id
RECURSIVE DedupFrom(_, _, _)
DedupFrom(results, k, seen_medicines) ==
    IF k > Len(results) THEN <<>>
    ELSE LET medicine_id == results[k].medicine.id
         IN  IF medicine_id \notin seen_medicines
             THEN << results[k] >>
                  \o DedupFrom(results, k + 1, seen_medicines \cup {medicine_id})
             ELSE DedupFrom(results, k + 1, seen_medicines)

\* no deduplication at all
keep_all_results(results) == results

\* one result per medicine id, the one with the highest score (the first of
\* them), at the place of the first result of that id
keep_best_results(results) ==
    LET firsts == SelectSeq([k \in 1..Len(results) |-> k],
                      LAMBDA k : \A j \in 1..(k - 1) :
                          results[j].medicine.id # results[k].medicine.id)
        best(k) == CHOOSE j \in 1..Len(results) :
                      /\ results[j].medicine.id = results[k].medicine.id
                      /\ \A i \in 1..Len(results) :
                            results[i].medicine.id = results[k].medicine.id
                            => \/ results[i].confidence_score < results[j].confidence_score
                               \/ /\ results[i].confidence_score = results[j].confidence_score
                                  /\ j <= i
    IN  [n \in 1..Len(firsts) |-> results[best(firsts[n])]]

remove_duplicate_results(results) == DedupFrom(results, 1, {})

\* place r before the elements of the sorted list whose score is <= its own
InsertBeforeTies(sorted, r) ==
    LET ahead == {i \in 1..Len(sorted) :
                     \A j \in 1..i : sorted[j].confidence_score > r.confidence_score}
        n     == Cardinality(ahead)
    IN  Slice(sorted, 1, n) \o << r >> \o Slice(sorted, n + 1, Len(sorted))

\* place r behind every element of the sorted list whose score is >= its own
InsertByConfidence(sorted, r) ==
    LET ahead == {i \in 1..Len(sorted) :
                     \A j \in 1..i : sorted[j].confidence_score >= r.confidence_score}
        n     == Cardinality(ahead)
    IN  Slice(sorted, 1, n) \o << r >> \o Slice(sorted, n + 1, Len(sorted))

\* list.sort(key=confidence_score, reverse=True): descending and stable
RECURSIVE SortFrom(_, _, _)
SortFrom(lst, k, sorted) ==
    IF k > Len(lst) THEN sorted
    ELSE SortFrom(lst, k + 1, InsertByConfidence(sorted, lst[k]))

\* the sort without reverse=True: ascending and stable
RECURSIVE SortAscendingFrom(_, _, _)
SortAscendingFrom(lst, k, sorted) ==
    IF k > Len(lst) THEN sorted
    ELSE LET r     == lst[k]
             ahead == {i \in 1..Len(sorted) :
                          \A j \in 1..i :
                              sorted[j].confidence_score <= r.confidence_score}
             n     == Cardinality(ahead)
         IN  SortAscendingFrom(lst, k + 1,
                 Slice(sorted, 1, n) \o << r >> \o Slice(sorted, n + 1, Len(sorted)))

sort_ascending(lst) == SortAscendingFrom(lst, 1, <<>>)

sort_by_confidence(lst) == SortFrom(lst, 1, <<>>)

(***************************************************************************)
(* Inputs of the model: scan texts, catalog rows, limits                   *)
(***************************************************************************)
MaxCatalog == 3
MaxRawLen == 5
MaxPieces == 4
MaxNameLen == 3
MaxLines == 3
MaxLimit   == 3

\* "NAPA 500MG TABLET BEXIMCO PHARMA 8901234567"
NapaText ==
    <<78, 65, 80, 65, 32, 53, 48, 48, 77, 71, 32, 84, 65, 66, 76, 69, 84, 32,
      66, 69, 88, 73, 77, 67, 79, 32, 80, 72, 65, 82, 77, 65, 32,
      56, 57, 48, 49, 50, 51, 52, 53, 54, 55>>
\* "NAPA\nParacetamol\nBeximco Pharma\n8901234567"
LabelText ==
    <<78, 65, 80, 65, 10, 80, 97, 114, 97, 99, 101, 116, 97, 109, 111, 108, 10,
      66, 101, 120, 105, 109, 99, 111, 32, 80, 104, 97, 114, 109, 97, 10,
      56, 57, 48, 49, 50, 51, 52, 53, 54, 55>>
\* "ACETAMOL\n12345678"
AcetamolText ==
    <<65, 67, 69, 84, 65, 77, 79, 76, 10, 49, 50, 51, 52, 53, 54, 55, 56>>
\* "NAPA\nACETAMOL"
TwoBrandText == <<78, 65, 80, 65, 10, 65, 67, 69, 84, 65, 77, 79, 76>>
\* "BEXIMCO PHARMA"
MakerText == <<66, 69, 88, 73, 77, 67, 79, 32, 80, 72, 65, 82, 77, 65>>

Texts == {EmptyStr, NapaText, LabelText, AcetamolText, TwoBrandText, MakerText}

\* "Napa", "Napa Extra", "Paracetamol", "Beximco Pharma", "8901234567"
Napa          == <<78, 97, 112, 97>>
NapaExtra     == <<78, 97, 112, 97, 32, 69, 120, 116, 114, 97>>
Paracetamol   == <<80, 97, 114, 97, 99, 101, 116, 97, 109, 111, 108>>
BeximcoPharma == <<66, 101, 120, 105, 109, 99, 111, 32, 80, 104, 97, 114, 109, 97>>
NapaBarcode   == <<56, 57, 48, 49, 50, 51, 52, 53, 54, 55>>
\* "Acetamal", "Acetamol", "Ace Pharma Ltd", "12345678"
Acetamal        == <<65, 99, 101, 116, 97, 109, 97, 108>>
Acetamol        == <<65, 99, 101, 116, 97, 109, 111, 108>>
AcePharmaLtd    == <<65, 99, 101, 32, 80, 104, 97, 114, 109, 97, 32, 76, 116, 100>>
AcetamalBarcode == <<49, 50, 51, 52, 53, 54, 55, 56>>
\* "Sergel", "Esomeprazole", "Beximco Pharma Ltd"
Sergel           == <<83, 101, 114, 103, 101, 108>>
Esomeprazole     == <<69, 115, 111, 109, 101, 112, 114, 97, 122, 111, 108, 101>>
BeximcoPharmaLtd ==
    <<66, 101, 120, 105, 109, 99, 111, 32, 80, 104, 97, 114, 109, 97, 32, 76, 116, 100>>

Medicine(id, brand, generic, maker, barcode) ==
    [ id |-> id, brand_name |-> brand, generic_name |-> generic,
      manufacturer |-> maker, barcode |-> barcode ]

NapaRow      == Medicine(1, Napa, Paracetamol, BeximcoPharma, NapaBarcode)
NapaExtraRow == Medicine(2, NapaExtra, Paracetamol, BeximcoPharma, NoBarcode)
AcetamalRow  == Medicine(3, Acetamal, Acetamol, AcePharmaLtd, AcetamalBarcode)
SergelRow    == Medicine(4, Sergel, Esomeprazole, BeximcoPharmaLtd, NoBarcode)

Rows == {NapaRow, NapaExtraRow, AcetamalRow, SergelRow}

\* a row whose brand name is missing
NamelessRow == Medicine(5, None, Paracetamol, BeximcoPharma, NoBarcode)

Min2(a, b) == IF a <= b THEN a ELSE b

\* every row order of every choice of at most MaxCatalog rows (ids and
\* barcodes are unique in the table)
Catalogs ==
    UNION { { c \in [1..n -> Rows] : \A i, j \in 1..n : i # j => c[i] # c[j] } :
              n \in 0..Min2(MaxCatalog, Cardinality(Rows)) }

\* the catalogs that hold the row with the missing brand name
FaultyCatalogs ==
    UNION { { c \in [1..n -> Rows \cup {NamelessRow}] :
                /\ \A i, j \in 1..n : i # j => c[i] # c[j]
                /\ \E i \in 1..n : c[i] = NamelessRow } :
              n \in 1..Min2(MaxCatalog, Cardinality(Rows) + 1) }

Limits == 0..MaxLimit

(***************************************************************************)
(* One call of search_medicines_by_ocr_text(db, text, limit).  pc is the   *)
(* statement the call is at; a catalog query may raise, which the          *)
(* function's except clause turns into the return value [].                *)
(***************************************************************************)
VARIABLES db, text, limit, pc, medicine_info, results, unique_results,
          returned, failed, call, ret

vars == << db, text, limit, pc, medicine_info, results, unique_results,
           returned, failed, call, ret >>

Strategies == << "barcode", "brand_name", "generic_name", "manufacturer", "fuzzy" >>

Init ==
    /\ db \in Catalogs
    /\ text \in Texts
    /\ limit \in Limits
    /\ pc = "extract"
    /\ medicine_info = DefaultInfo
    /\ results = <<>>
    /\ unique_results = <<>>
    /\ returned = <<>>
    /\ failed = "none"
    /\ call = [op |-> "search_medicines_by_ocr_text"]
    /\ ret = [kind |-> "none"]

\* lines 177-181
ExtractInfo ==
    /\ pc = "extract"
    /\ medicine_info' = extract_medicine_info(text)
    /\ results' = <<>>
    /\ pc' = "barcode"
    /\ UNCHANGED << db, text, limit, unique_results, returned, failed, call, ret >>

\* lines 183-192
BarcodeStrategy ==
    /\ pc = "barcode"
    /\ results' = results \o barcode_strategy(db, medicine_info)
    /\ pc' = "brand_name"
    /\ UNCHANGED << db, text, limit, medicine_info, unique_results, returned, failed, call, ret >>

\* lines 194-205
BrandNameStrategy ==
    /\ pc = "brand_name"
    /\ results' = results \o brand_name_strategy(db, medicine_info, limit)
    /\ pc' = "generic_name"
    /\ UNCHANGED << db, text, limit, medicine_info, unique_results, returned, failed, call, ret >>

\* lines 207-218
GenericNameStrategy ==
    /\ pc = "generic_name"
    /\ results' = results \o generic_name_strategy(db, medicine_info, limit)
    /\ pc' = "manufacturer"
    /\ UNCHANGED << db, text, limit, medicine_info, unique_results, returned, failed, call, ret >>

\* lines 220-231
ManufacturerStrategy ==
    /\ pc = "manufacturer"
    /\ results' = results \o manufacturer_strategy(db, medicine_info, limit)
    /\ pc' = "fuzzy"
    /\ UNCHANGED << db, text, limit, medicine_info, unique_results, returned, failed, call, ret >>

\* lines 233-255: the fuzzy strategy, then deduplication, sort and return
FuzzyStrategyAndReturn ==
    /\ pc = "fuzzy"
    /\ \A i \in 1..Len(get_medicines(db, FuzzyPageLimit)) :
          ~ScoringFails(get_medicines(db, FuzzyPageLimit)[i])
    /\ results' = results \o fuzzy_strategy(db, text)
    /\ unique_results' = sort_by_confidence(remove_duplicate_results(results'))
    /\ returned' = Take(unique_results', limit)
    /\ pc' = "done"
    /\ UNCHANGED << db, text, limit, medicine_info, failed, call, ret >>

\* the strategy at pc queries the catalog
CallsCatalog ==
    \/ pc = "barcode"      /\ medicine_info.barcode # EmptyStr
    \/ pc = "brand_name"   /\ medicine_info.brand_name # EmptyStr
    \/ pc = "generic_name" /\ medicine_info.generic_name # EmptyStr
    \/ pc = "manufacturer" /\ medicine_info.manufacturer # EmptyStr
    \/ pc = "fuzzy"

\* the query of the strategy at pc raises and no except clause catches it
CatalogCallPropagates ==
    /\ CallsCatalog
    /\ failed' = pc
    /\ pc' = "raised"
    /\ UNCHANGED << db, text, limit, medicine_info, results, unique_results,
                    returned, call, ret >>

\* lines 257-259: the query of the strategy at pc raises; the except clause
\* of the function logs the error and returns []
CatalogCallRaises ==
    /\ CallsCatalog
    /\ failed' = pc
    /\ returned' = <<>>
    /\ pc' = "done"
    /\ UNCHANGED << db, text, limit, medicine_info, results, unique_results, call, ret >>

Next ==
    \/ ExtractInfo
    \/ BarcodeStrategy
    \/ BrandNameStrategy
    \/ GenericNameStrategy
    \/ ManufacturerStrategy
    \/ FuzzyStrategyAndReturn
    \/ CatalogCallRaises

Spec == Init /\ [][Next]_vars

(***************************************************************************)
(* The same call on a catalog that holds a row with a missing column.      *)
(***************************************************************************)
InitFaulty ==
    /\ db \in Catalogs \cup FaultyCatalogs
    /\ text \in Texts
    /\ limit \in Limits
    /\ pc = "extract"
    /\ medicine_info = DefaultInfo
    /\ results = <<>>
    /\ unique_results = <<>>
    /\ returned = <<>>
    /\ failed = "none"
    /\ call = [op |-> "search_medicines_by_ocr_text"]
    /\ ret = [kind |-> "none"]

\* lines 235-239, 257-259: the fuzzy loop reaches a row with a missing
\* column, .lower() raises inside the loop, and the except clause of the
\* function returns []
ScoringRaises ==
    /\ pc = "fuzzy"
    /\ \E i \in 1..Len(get_medicines(db, FuzzyPageLimit)) :
          ScoringFails(get_medicines(db, FuzzyPageLimit)[i])
    /\ failed' = "scoring"
    /\ returned' = <<>>
    /\ pc' = "done"
    /\ UNCHANGED << db, text, limit, medicine_info, results, unique_results, call, ret >>

NextFaulty ==
    \/ ExtractInfo
    \/ BarcodeStrategy
    \/ BrandNameStrategy
    \/ GenericNameStrategy
    \/ ManufacturerStrategy
    \/ FuzzyStrategyAndReturn
    \/ CatalogCallRaises
    \/ ScoringRaises

SpecFaulty == InitFaulty /\ [][NextFaulty]_vars

(***************************************************************************)
(* The same call on tables of more than FuzzyPageLimit rows                *)
(***************************************************************************)
\* "Zzz": a name that shares no letter with any text
Filler == <<90, 122, 122>>

FillerRow(i) == Medicine(100 + i, Filler, Filler, Filler, NoBarcode)

\* FuzzyPageLimit - 1 filler rows, then two rows of Rows: the last row of the
\* page and the first row behind it
LongCatalogs ==
    { [ i \in 1..(FuzzyPageLimit + 1) |->
          IF i < FuzzyPageLimit THEN FillerRow(i)
          ELSE IF i = FuzzyPageLimit THEN p[1] ELSE p[2] ] :
        p \in { << NapaExtraRow, NapaRow >>, << NapaRow, AcetamalRow >> } }

\* "napa": a text from which no field is extracted
LowerNapaText == <<110, 97, 112, 97>>

InitPage ==
    /\ db \in { c \in Catalogs : Len(c) <= 2 } \cup LongCatalogs
    /\ text \in Texts \cup {LowerNapaText}
    /\ limit \in Limits
    /\ pc = "extract"
    /\ medicine_info = DefaultInfo
    /\ results = <<>>
    /\ unique_results = <<>>
    /\ returned = <<>>
    /\ failed = "none"
    /\ call = [op |-> "search_medicines_by_ocr_text"]
    /\ ret = [kind |-> "none"]

NextPage ==
    \/ ExtractInfo
    \/ BarcodeStrategy
    \/ BrandNameStrategy
    \/ GenericNameStrategy
    \/ ManufacturerStrategy
    \/ FuzzyStrategyAndReturn
    \/ CatalogCallRaises

SpecPage == InitPage /\ [][NextPage]_vars

(***************************************************************************)
(* Two calls of search_medicines_by_ocr_text in flight on the one          *)
(* OCRService instance of main.py, over the same table.  The locals of the *)
(* first call are the variables above; call holds the arguments of the     *)
(* second call and ret its locals.  Every step of one call may come        *)
(* between two steps of the other.                                         *)
(***************************************************************************)
\* the function as one call that runs alone, lines 176-255
search_medicines_by_ocr_text(d, t, n) ==
    LET info == extract_medicine_info(t)
        all  == barcode_strategy(d, info)
                  \o brand_name_strategy(d, info, n)
                  \o generic_name_strategy(d, info, n)
                  \o manufacturer_strategy(d, info, n)
                  \o fuzzy_strategy(d, t)
    IN  Take(sort_by_confidence(remove_duplicate_results(all)), n)

TwoScanCatalogs ==
    { << NapaRow, AcetamalRow >>, << AcetamalRow, NapaRow >>,
      << NapaExtraRow, NapaRow >>, << SergelRow >> }

InitTwoScans ==
    /\ db \in TwoScanCatalogs
    /\ text \in {NapaText, MakerText}
    /\ limit \in {1, 2}
    /\ pc = "extract"
    /\ medicine_info = DefaultInfo
    /\ results = <<>>
    /\ unique_results = <<>>
    /\ returned = <<>>
    /\ failed = "none"
    /\ call \in { [op |-> "search_medicines_by_ocr_text", text |-> t, limit |-> n] :
                     t \in {AcetamolText, NapaText}, n \in {1, 2} }
    /\ ret = [ kind |-> "locals", pc |-> "extract", medicine_info |-> DefaultInfo,
               results |-> <<>>, returned |-> <<>> ]

\* lines 177-181, second call
Scan2ExtractInfo ==
    /\ ret.pc = "extract"
    /\ ret' = [ ret EXCEPT !.medicine_info = extract_medicine_info(call.text),
                           !.results = <<>>,
                           !.pc = "barcode" ]
    /\ UNCHANGED << db, text, limit, pc, medicine_info, results, unique_results,
                    returned, failed, call >>

\* lines 183-192, second call
Scan2BarcodeStrategy ==
    /\ ret.pc = "barcode"
    /\ ret' = [ ret EXCEPT !.results = @ \o barcode_strategy(db, ret.medicine_info),
                           !.pc = "brand_name" ]
    /\ UNCHANGED << db, text, limit, pc, medicine_info, results, unique_results,
                    returned, failed, call >>

\* the second call with results as an attribute of the shared OCRService
\* instance: its candidates go to the list the first call reads
Scan2BrandNameStrategyShared ==
    /\ ret.pc = "brand_name"
    /\ results' = results \o brand_name_strategy(db, ret.medicine_info, call.limit)
    /\ ret' = [ ret EXCEPT !.pc = "generic_name" ]
    /\ UNCHANGED << db, text, limit, pc, medicine_info, unique_results, returned,
                    failed, call >>

\* lines 194-205, second call
Scan2BrandNameStrategy ==
    /\ ret.pc = "brand_name"
    /\ ret' = [ ret EXCEPT
                  !.results = @ \o brand_name_strategy(db, ret.medicine_info, call.limit),
                  !.pc = "generic_name" ]
    /\ UNCHANGED << db, text, limit, pc, medicine_info, results, unique_results,
                    returned, failed, call >>

\* lines 207-218, second call
Scan2GenericNameStrategy ==
    /\ ret.pc = "generic_name"
    /\ ret' = [ ret EXCEPT
                  !.results = @ \o generic_name_strategy(db, ret.medicine_info, call.limit),
                  !.pc = "manufacturer" ]
    /\ UNCHANGED << db, text, limit, pc, medicine_info, results, unique_results,
                    returned, failed, call >>

\* lines 220-231, second call
Scan2ManufacturerStrategy ==
    /\ ret.pc = "manufacturer"
    /\ ret' = [ ret EXCEPT
                  !.results = @ \o manufacturer_strategy(db, ret.medicine_info, call.limit),
                  !.pc = "fuzzy" ]
    /\ UNCHANGED << db, text, limit, pc, medicine_info, results, unique_results,
                    returned, failed, call >>

\* lines 233-255, second call
Scan2FuzzyStrategyAndReturn ==
    /\ ret.pc = "fuzzy"
    /\ LET all == ret.results \o fuzzy_strategy(db, call.text)
       IN  ret' = [ ret EXCEPT
                     !.results = all,
                     !.returned = Take(sort_by_confidence(remove_duplicate_results(all)),
                                       call.limit),
                     !.pc = "done" ]
    /\ UNCHANGED << db, text, limit, pc, medicine_info, results, unique_results,
                    returned, failed, call >>

NextTwoScans ==
    \/ ExtractInfo
    \/ BarcodeStrategy
    \/ BrandNameStrategy
    \/ GenericNameStrategy
    \/ ManufacturerStrategy
    \/ FuzzyStrategyAndReturn
    \/ Scan2ExtractInfo
    \/ Scan2BarcodeStrategy
    \/ Scan2BrandNameStrategy
    \/ Scan2GenericNameStrategy
    \/ Scan2ManufacturerStrategy
    \/ Scan2FuzzyStrategyAndReturn

SpecTwoScans == InitTwoScans /\ [][NextTwoScans]_vars

(***************************************************************************)
(* POST /ocr/search: process_image_file on the uploaded file, then the     *)
(* search on the extracted text, then the response.  An uploaded file is   *)
(* its bytes as cv2 and the recognizer see them: bytes that do not decode  *)
(* (imdecode returns None), a picture the recognizer fails on, or a        *)
(* picture with the text the recognizer reads from it.                     *)
(***************************************************************************)
\* "NAPA\nParacetamol 500 mg\nBeximco Pharma Ltd\n"
StripText ==
    <<78, 65, 80, 65, 10,
      80, 97, 114, 97, 99, 101, 116, 97, 109, 111, 108, 32, 53, 48, 48, 32, 109, 103, 10,
      66, 101, 120, 105, 109, 99, 111, 32, 80, 104, 97, 114, 109, 97, 32, 76, 116, 100, 10>>

Images ==
    { [kind |-> k, ocr |-> EmptyStr] : k \in {"empty", "undecodable", "unreadable"} }
        \cup { [kind |-> "picture", ocr |-> t] : t \in Texts \cup {StripText} }

\* the {} of "return '', {}"
EmptyDict == << >>

\* OCRService.extract_text_from_image: the cleaned recognizer output, "" when
\* the recognizer raises
extract_text_from_image(image) ==
    IF image.kind = "unreadable" THEN EmptyStr
    ELSE clean_extracted_text(image.ocr)

\* OCRService.process_image_file: the ValueError of line 335 is raised inside
\* the try block, whose except clause returns ("", {})
process_image_file(image) ==
    IF image.kind \in {"empty", "undecodable"}
    THEN [ kind |-> "tuple", extracted_text |-> EmptyStr, medicine_info |-> EmptyDict ]
    ELSE LET extracted_text == extract_text_from_image(image)
         IN  [ kind |-> "tuple", extracted_text |-> extracted_text,
               medicine_info |-> extract_medicine_info(extracted_text) ]

\* SearchService._format_ocr_result, on the columns of the model
format_ocr_result(result) ==
    [ medicine |-> result.medicine, confidence_score |-> result.confidence_score,
      matched_text |-> result.matched_text, match_type |-> result.match_type ]

InitScan ==
    /\ db \in Catalogs
    /\ text = EmptyStr
    /\ limit \in Limits
    /\ pc = "upload"
    /\ medicine_info = DefaultInfo
    /\ results = <<>>
    /\ unique_results = <<>>
    /\ returned = <<>>
    /\ failed = "none"
    /\ call \in { [op |-> "search_by_ocr", image |-> img] : img \in Images }
    /\ ret = [kind |-> "none"]

\* main.py line 167; the extracted text is the argument of the search
ProcessImageFile ==
    /\ pc = "upload"
    /\ ret' = process_image_file(call.image)
    /\ text' = ret'.extracted_text
    /\ pc' = "extract"
    /\ UNCHANGED << db, limit, medicine_info, results, unique_results, returned,
                    failed, call >>

\* main.py lines 170-176 and search_service.py line 25: the formatted results
\* of the search in the response
Respond ==
    /\ pc = "done"
    /\ ret' = [ kind |-> "response", status |-> 200,
                extracted_text |-> ret.extracted_text,
                medicine_info |-> ret.medicine_info,
                search_results |-> [i \in 1..Len(returned) |->
                                       format_ocr_result(returned[i])] ]
    /\ pc' = "responded"
    /\ UNCHANGED << db, text, limit, medicine_info, results, unique_results,
                    returned, failed, call >>

NextScan ==
    \/ ProcessImageFile
    \/ ExtractInfo
    \/ BarcodeStrategy
    \/ BrandNameStrategy
    \/ GenericNameStrategy
    \/ ManufacturerStrategy
    \/ FuzzyStrategyAndReturn
    \/ CatalogCallRaises
    \/ Respond

SpecScan == InitScan /\ [][NextScan]_vars

(***************************************************************************)
(* Single calls of the functions of OCRService on arguments drawn from     *)
(* bounded sets.  call holds the function and its arguments, ret its       *)
(* return value; no search is in progress.                                 *)
(***************************************************************************)
NoSearch ==
    /\ db = <<>>
    /\ text = EmptyStr
    /\ limit = 0
    /\ pc = "idle"
    /\ medicine_info = DefaultInfo
    /\ results = <<>>
    /\ unique_results = <<>>
    /\ returned = <<>>
    /\ failed = "none"

searchvars == << db, text, limit, pc, medicine_info, results, unique_results,
                 returned, failed >>

\* the strings of at most n characters of the alphabet
StringsOver(alphabet, n) == UNION { [1..k -> alphabet] : k \in 0..n }

\* space, newline, "a", "@", "_", "."
RawAlphabet == {32, 10, 97, 64, 95, 46}

InitClean ==
    /\ NoSearch
    /\ call \in { [op |-> "clean_extracted_text", text |-> t] :
                     t \in StringsOver(RawAlphabet, MaxRawLen) }
    /\ ret = [kind |-> "none"]

CleanExtractedText ==
    /\ call.op = "clean_extracted_text"
    /\ ret.kind = "none"
    /\ ret' = [kind |-> "value", value |-> clean_extracted_text(call.text)]
    /\ UNCHANGED << searchvars, call >>

NextClean == CleanExtractedText

SpecClean == InitClean /\ [][NextClean]_vars

\* pieces of label text: "12345", "87654321", " ", newline, "x", ".", "mg", "MG"
LabelPieces ==
    { <<49, 50, 51, 52, 53>>, <<56, 55, 54, 53, 52, 51, 50, 49>>, <<32>>, <<10>>,
      <<120>>, <<46>>, <<109, 103>>, <<77, 71>> }

RECURSIVE Join(_)
Join(pieces) == IF pieces = <<>> THEN <<>> ELSE Head(pieces) \o Join(Tail(pieces))

\* "500mg", "500 MG"
Strength500mg  == <<53, 48, 48, 109, 103>>
Strength500_MG == <<53, 48, 48, 32, 77, 71>>

\* the texts made of at most MaxPieces pieces, and the two strength examples
LabelTexts ==
    { Join(p) : p \in UNION { [1..k -> LabelPieces] : k \in 0..MaxPieces } }
        \cup {Strength500mg, Strength500_MG}

InitExtract ==
    /\ NoSearch
    /\ call \in { [op |-> "extract_medicine_info", text |-> t] : t \in LabelTexts }
    /\ ret = [kind |-> "none"]

ExtractMedicineInfo ==
    /\ call.op = "extract_medicine_info"
    /\ ret.kind = "none"
    /\ ret' = [kind |-> "value", value |-> extract_medicine_info(call.text)]
    /\ UNCHANGED << searchvars, call >>

NextExtract == ExtractMedicineInfo

SpecExtract == InitExtract /\ [][NextExtract]_vars

(***************************************************************************)
(* extract_medicine_info line by line: ret holds the index of the next     *)
(* line of the for loop and the info dictionary so far.                     *)
(***************************************************************************)
\* "1234567890 5mg"
BarcodeStrengthLine == <<49, 50, 51, 52, 53, 54, 55, 56, 57, 48, 32, 53, 109, 103>>
\* "BEXIMCO INC"
UpperMakerLine == <<66, 69, 88, 73, 77, 67, 79, 32, 73, 78, 67>>
\* "NAPA"
BrandLine == <<78, 65, 80, 65>>
\* "  SERGEL  "
PaddedBrandLine == <<32, 32, 83, 69, 82, 71, 69, 76, 32, 32>>
\* "AB"
ShortLine == <<65, 66>>
\* "Paracetamol"
GenericLine == <<80, 97, 114, 97, 99, 101, 116, 97, 109, 111, 108>>
\* "30 characters: ABCDEF..."
Upper30Line ==
    <<65, 66, 67, 68, 69, 70, 71, 72, 73, 74, 75, 76, 77, 78, 79, 80, 81,
      82, 83, 84, 85, 86, 87, 88, 89, 90, 65, 66, 67, 68>>
\* "31 characters: ABCDEF..."
Upper31Line ==
    <<65, 66, 67, 68, 69, 70, 71, 72, 73, 74, 75, 76, 77, 78, 79, 80, 81,
      82, 83, 84, 85, 86, 87, 88, 89, 90, 65, 66, 67, 68, 69>>
\* "50 characters: Abbbbb..."
Mixed50Line ==
    <<65, 98, 98, 98, 98, 98, 98, 98, 98, 98, 98, 98, 98, 98, 98, 98, 98,
      98, 98, 98, 98, 98, 98, 98, 98, 98, 98, 98, 98, 98, 98, 98, 98, 98,
      98, 98, 98, 98, 98, 98, 98, 98, 98, 98, 98, 98, 98, 98, 98, 98>>
\* "51 characters: Abbbbb..."
Mixed51Line ==
    <<65, 98, 98, 98, 98, 98, 98, 98, 98, 98, 98, 98, 98, 98, 98, 98, 98,
      98, 98, 98, 98, 98, 98, 98, 98, 98, 98, 98, 98, 98, 98, 98, 98, 98,
      98, 98, 98, 98, 98, 98, 98, 98, 98, 98, 98, 98, 98, 98, 98, 98, 98>>
\* "NAPA TABLET"
TabletLine == <<78, 65, 80, 65, 32, 84, 65, 66, 76, 69, 84>>
\* "Zen Inc 87654321 2 ml"
AllFieldsLine ==
    <<90, 101, 110, 32, 73, 110, 99, 32, 56, 55, 54, 53, 52, 51, 50, 49,
      32, 50, 32, 109, 108>>

LabelLines ==
    { EmptyStr, BarcodeStrengthLine, UpperMakerLine, BrandLine,
      PaddedBrandLine, ShortLine, GenericLine, Upper30Line, Upper31Line,
      Mixed50Line, Mixed51Line, TabletLine, AllFieldsLine }

\* '\n'.join(lines)
RECURSIVE JoinLines(_)
JoinLines(lines) ==
    IF lines = <<>> THEN <<>>
    ELSE IF Len(lines) = 1 THEN lines[1]
    ELSE lines[1] \o << NL >> \o JoinLines(Tail(lines))

\* the texts of at most MaxLines label lines, and an argument that is no string
LineTexts ==
    { JoinLines(l) : l \in UNION { [1..k -> LabelLines] : k \in 0..MaxLines } }
        \cup {None}

InitLines ==
    /\ NoSearch
    /\ call \in { [op |-> "extract_medicine_info", text |-> t] : t \in LineTexts }
    /\ ret = [kind |-> "loop", k |-> 1, value |-> DefaultInfo]

\* lines 105-127: one pass of the loop
ExtractLine ==
    /\ call.op = "extract_medicine_info"
    /\ call.text # None
    /\ ret.kind = "loop"
    /\ ret.k <= Len(split_lines(call.text))
    /\ ret' = [ kind |-> "loop", k |-> ret.k + 1,
                value |-> InfoStep(ret.value, split_lines(call.text)[ret.k]) ]
    /\ UNCHANGED << searchvars, call >>

\* lines 129-135: the names, and the return
ExtractNamesAndReturn ==
    /\ call.op = "extract_medicine_info"
    /\ call.text # None
    /\ ret.kind = "loop"
    /\ ret.k > Len(split_lines(call.text))
    /\ LET names == extract_potential_names(split_lines(call.text))
       IN  ret' = [ kind |-> "value", raised |-> FALSE,
                   value |-> [ ret.value EXCEPT !.brand_name   = names.brand_name,
                                                !.generic_name = names.generic_name ] ]
    /\ UNCHANGED << searchvars, call >>

\* the function without its except clause: the exception reaches the caller
ExtractRaisesPropagates ==
    /\ call.op = "extract_medicine_info"
    /\ call.text = None
    /\ ret.kind = "loop"
    /\ ret' = [ kind |-> "raised", raised |-> TRUE, value |-> ret.value ]
    /\ UNCHANGED << searchvars, call >>

\* lines 105, 137-139: text.split raises on an argument that is no string;
\* the except clause returns info as it is
ExtractRaises ==
    /\ call.op = "extract_medicine_info"
    /\ call.text = None
    /\ ret.kind = "loop"
    /\ ret' = [ kind |-> "value", raised |-> TRUE, value |-> ret.value ]
    /\ UNCHANGED << searchvars, call >>

NextLines ==
    \/ ExtractLine
    \/ ExtractNamesAndReturn
    \/ ExtractRaises

SpecLines == InitLines /\ [][NextLines]_vars

\* names of at most MaxNameLen characters over "A", "a", "b", and no name
NameAlphabet == {65, 97, 98}

Names == StringsOver(NameAlphabet, MaxNameLen) \cup {None}

InitConfidence ==
    /\ NoSearch
    /\ call \in { [op |-> "calculate_name_confidence",
                    extracted_name |-> a, database_name |-> b] :
                     a \in Names, b \in Names }
    /\ ret = [kind |-> "none"]

CalculateNameConfidence ==
    /\ call.op = "calculate_name_confidence"
    /\ ret.kind = "none"
    /\ ret' = [kind |-> "value",
               value |-> calculate_name_confidence(call.extracted_name,
                                                   call.database_name)]
    /\ UNCHANGED << searchvars, call >>

NextConfidence == CalculateNameConfidence

SpecConfidence == InitConfidence /\ [][NextConfidence]_vars

(***************************************************************************)
(* Properties                                                              *)
(***************************************************************************)
\* the call has returned from the try block (no query raised)
ReturnedNormally == pc = "done" /\ failed = "none"

IdsOf(lst) == { lst[i].medicine.id : i \in 1..Len(lst) }

\* position of a tag in the priority order barcode > ... > fuzzy
TagRank(tag) == CHOOSE k \in 1..Len(Strategies) : Strategies[k] = tag

\* index in results of the first candidate of a medicine id
FirstSeen(id) ==
    CHOOSE k \in 1..Len(results) :
        /\ results[k].medicine.id = id
        /\ \A j \in 1..(k - 1) : results[j].medicine.id # id

\* the candidates of results that have the given tag
TaggedIn(lst, tag) == { i \in 1..Len(lst) : lst[i].match_type = tag }

\* C1: the returned list holds at most one result per catalog entry id,
\* whichever strategies produced candidates for the entry.
C1_OneResultPerEntry ==
    \A i, j \in 1..Len(returned) :
        i # j => returned[i].medicine.id # returned[j].medicine.id

\* an entry with candidates of at least three strategies is returned
C1_Witness ==
    /\ ReturnedNormally
    /\ \E i \in 1..Len(returned) :
          Cardinality({ results[k].match_type :
                          k \in { n \in 1..Len(results) :
                                    results[n].medicine.id = returned[i].medicine.id } })
              >= 3

\* C2: the candidates are produced in the order barcode, brand_name,
\* generic_name, manufacturer, fuzzy, and the result kept for an entry is the
\* first candidate of that entry, whatever the later candidates score.
C2_FirstSeenWins ==
    /\ \A i, j \in 1..Len(results) :
          i < j => TagRank(results[i].match_type) <= TagRank(results[j].match_type)
    /\ ReturnedNormally =>
          /\ \A i \in 1..Len(unique_results) :
                unique_results[i] = results[FirstSeen(unique_results[i].medicine.id)]
          /\ \A i \in 1..Len(returned) :
                returned[i] = results[FirstSeen(returned[i].medicine.id)]

\* a barcode result of 0.95 is returned although the fuzzy strategy scored
\* the same entry 1.0
C2_Witness ==
    /\ ReturnedNormally
    /\ \E i \in 1..Len(returned) :
          /\ returned[i].match_type = "barcode"
          /\ returned[i].confidence_score = BarcodeConfidence
          /\ \E k \in 1..Len(results) :
                /\ results[k].medicine.id = returned[i].medicine.id
                /\ results[k].match_type = "fuzzy"
                /\ results[k].confidence_score = ExactConfidence

\* C3: the returned list is in descending order of confidence_score.
C3_DescendingConfidence ==
    \A i, j \in 1..Len(returned) :
        i < j => returned[i].confidence_score >= returned[j].confidence_score

\* the sort had to move a result: a later candidate outscores an earlier one
\* and both are returned
C3_Witness ==
    /\ ReturnedNormally
    /\ \E i, j \in 1..Len(returned) :
          /\ i < j
          /\ returned[i].confidence_score > returned[j].confidence_score
          /\ FirstSeen(returned[i].medicine.id) > FirstSeen(returned[j].medicine.id)

\* C4: of two returned results with equal confidence_score and different
\* strategy tags, the one with the higher-priority tag comes first.
C4_TiesByTagPriority ==
    \A i, j \in 1..Len(returned) :
        (/\ i < j
         /\ returned[i].confidence_score = returned[j].confidence_score)
        => TagRank(returned[i].match_type) <= TagRank(returned[j].match_type)

\* two results of equal score and different tags are returned
C4_Witness ==
    /\ ReturnedNormally
    /\ \E i, j \in 1..Len(returned) :
          /\ i < j
          /\ returned[i].confidence_score = returned[j].confidence_score
          /\ returned[i].match_type # returned[j].match_type

\* C5: of two returned results with equal confidence_score and equal strategy
\* tag, the one with the smaller catalog entry id comes first.
C5_TiesByEntryId ==
    \A i, j \in 1..Len(returned) :
        (/\ i < j
         /\ returned[i].confidence_score = returned[j].confidence_score
         /\ returned[i].match_type = returned[j].match_type)
        => returned[i].medicine.id < returned[j].medicine.id

\* C6: every candidate and every returned result has a score in [0.0, 1.0]:
\* 0.95 for barcode, in (0.7, 1.0] for brand_name and generic_name, in
\* (0.64, 0.8] for manufacturer (0.8 times a confidence in (0.8, 1.0]), and
\* a whole number of hundredths in (0.7, 1.0] for fuzzy.
ScoreInRange(r) ==
    /\ r.confidence_score >= 0
    /\ r.confidence_score <= 10000
    /\ r.match_type = "barcode" => r.confidence_score = 9500
    /\ r.match_type \in {"brand_name", "generic_name"} =>
          r.confidence_score > 7000 /\ r.confidence_score <= 10000
    /\ r.match_type = "manufacturer" =>
          r.confidence_score > 6400 /\ r.confidence_score <= 8000
    /\ r.match_type = "fuzzy" =>
          /\ r.confidence_score > 7000
          /\ r.confidence_score <= 10000
          /\ r.confidence_score % 100 = 0

C6_ScoresInUnitInterval ==
    /\ \A i \in 1..Len(results) : ScoreInRange(results[i])
    /\ \A i \in 1..Len(returned) : ScoreInRange(returned[i])

\* all five strategies have produced candidates and results are returned
C6_Witness ==
    /\ ReturnedNormally
    /\ \A k \in 1..Len(Strategies) : TaggedIn(results, Strategies[k]) # {}
    /\ returned # <<>>

\* C7: for a limit >= 0 the returned list has at most limit results and is
\* the first limit elements of the deduplicated, sorted candidate list: it
\* has min(limit, number of matched entries) results, it is a prefix of the
\* list that holds every matched entry once in descending order, and so no
\* entry left out outscores a returned one.
C7_TruncatedAfterAggregation ==
    (ReturnedNormally /\ limit >= 0) =>
        /\ Len(returned) <= limit
        /\ Len(returned) = Min2(limit, Cardinality(IdsOf(results)))
        /\ Len(unique_results) = Cardinality(IdsOf(results))
        /\ IdsOf(unique_results) = IdsOf(results)
        /\ \A i \in 1..Len(returned) : returned[i] = unique_results[i]
        /\ \A i \in 1..Len(returned) : \A k \in 1..Len(unique_results) :
              k > Len(returned) =>
                  unique_results[k].confidence_score <= returned[i].confidence_score

\* the limit cuts off matched entries, after duplicates among the first
\* limit candidates were removed
C7_Witness ==
    /\ ReturnedNormally
    /\ limit >= 1
    /\ Len(returned) = limit
    /\ Cardinality(IdsOf(results)) > limit
    /\ Cardinality(IdsOf(SubSeq(results, 1, limit))) < limit

\* C8: once the barcode strategy has run, a catalog entry whose barcode is
\* the extracted barcode has the candidate (0.95, barcode, matched_text =
\* the barcode) in the candidate list, and after deduplication the result of
\* that entry is this candidate.
BarcodeStrategyHasRun ==
    pc \in {"brand_name", "generic_name", "manufacturer", "fuzzy", "done"}
        /\ failed # "barcode"

C8_BarcodeCandidate ==
    BarcodeStrategyHasRun =>
        \A n \in 1..Len(db) :
            (medicine_info.barcode # EmptyStr /\ db[n].barcode = medicine_info.barcode)
            => LET c == Candidate(db[n], 9500, medicine_info.barcode, "barcode")
               IN  /\ \E k \in 1..Len(results) : results[k] = c
                   /\ ReturnedNormally =>
                         \E k \in 1..Len(unique_results) :
                             /\ unique_results[k] = c
                             /\ \A j \in 1..Len(unique_results) :
                                   unique_results[j].medicine.id = db[n].id => j = k

\* the extracted barcode is that of an entry which other strategies matched
\* as well, and the deduplicated list holds the barcode candidate for it
C8_Witness ==
    /\ ReturnedNormally
    /\ medicine_info.barcode # EmptyStr
    /\ \E n \in 1..Len(db) :
          /\ db[n].barcode = medicine_info.barcode
          /\ Cardinality({ k \in 1..Len(results) : results[k].medicine.id = db[n].id }) >= 2
          /\ \E k \in 1..Len(unique_results) :
                /\ unique_results[k].medicine.id = db[n].id
                /\ unique_results[k].match_type = "barcode"

\* C9: with the catalog that holds only {1, Napa, Paracetamol, Beximco Pharma,
\* 8901234567} and the text "NAPA 500MG TABLET BEXIMCO PHARMA 8901234567", a
\* call with limit >= 1 that returns from the try block returns entry 1 with
\* confidence 0.95 and tag barcode as its first result.
NapaScenario == db = << NapaRow >> /\ text = NapaText /\ limit >= 1

C9_NapaEndToEnd ==
    (NapaScenario /\ ReturnedNormally) =>
        /\ medicine_info.barcode = NapaBarcode
        /\ Len(returned) >= 1
        /\ returned[1].medicine.id = 1
        /\ returned[1].confidence_score = 9500
        /\ returned[1].match_type = "barcode"

\* the scenario has run to its return
C9_Witness ==
    /\ NapaScenario
    /\ ReturnedNormally
    /\ Len(results) >= 2
    /\ returned # <<>>

\* C10: when the catalog query of one strategy raises, the returned list is
\* the aggregation of the candidates of all the other strategies.
OtherStrategies(skipped) ==
    (IF skipped = "barcode" THEN <<>> ELSE barcode_strategy(db, medicine_info))
    \o (IF skipped = "brand_name" THEN <<>>
        ELSE brand_name_strategy(db, medicine_info, limit))
    \o (IF skipped = "generic_name" THEN <<>>
        ELSE generic_name_strategy(db, medicine_info, limit))
    \o (IF skipped = "manufacturer" THEN <<>>
        ELSE manufacturer_strategy(db, medicine_info, limit))
    \o (IF skipped = "fuzzy" THEN <<>> ELSE fuzzy_strategy(db, text))

C10_FailedStrategyIsolated ==
    (pc = "done" /\ failed # "none") =>
        returned = Take(sort_by_confidence(
                            remove_duplicate_results(OtherStrategies(failed))), limit)

\* C11: when scoring one catalog entry fails inside a strategy (an entry with
\* a missing column), only that entry is skipped: the candidates of all the
\* other entries (those already collected and their fuzzy candidates) are
\* still returned, best first, as far as the limit allows.
ScorableRows ==
    SelectSeq(get_medicines(db, FuzzyPageLimit), LAMBDA m : ~ScoringFails(m))

CandidatesOfOtherEntries ==
    SelectSeq(results \o FuzzyFrom(ScorableRows, text),
              LAMBDA c : ~ScoringFails(c.medicine))

C11_ScoringFailureSkipsEntry ==
    (pc = "done" /\ failed = "scoring") =>
        LET expected == sort_by_confidence(
                            remove_duplicate_results(CandidatesOfOtherEntries))
            kept     == SelectSeq(returned, LAMBDA c : ~ScoringFails(c.medicine))
        IN  /\ kept = Take(expected, Len(kept))
            /\ Len(returned) < limit => kept = expected

\* C12: an upload whose bytes are empty or do not decode is reported as a
\* decode failure: process_image_file does not return normally, and the
\* response of /ocr/search is an error, not a success with empty text.
UploadDoesNotDecode ==
    call.op = "search_by_ocr" /\ call.image.kind \in {"empty", "undecodable"}

C12_DecodeFailureIsReported ==
    UploadDoesNotDecode =>
        /\ ret.kind # "tuple"
        /\ ret.kind = "response" => ret.status # 200

\* C13: for the empty text, extract_medicine_info leaves every field absent
\* and search_medicines_by_ocr_text returns the empty list without raising,
\* whatever the catalog holds.
EmptyTextSearch == call.op = "search_medicines_by_ocr_text" /\ text = EmptyStr

C13_EmptyTextMatchesNothing ==
    EmptyTextSearch =>
        /\ pc # "raised"
        /\ pc # "extract" =>
              /\ medicine_info.brand_name = EmptyStr
              /\ medicine_info.generic_name = EmptyStr
              /\ medicine_info.strength = EmptyStr
              /\ medicine_info.manufacturer = EmptyStr
              /\ medicine_info.barcode = EmptyStr
        /\ pc = "done" => returned = <<>>

\* the empty text has been searched in a catalog of several rows, none faulty
C13_Witness ==
    /\ EmptyTextSearch
    /\ ReturnedNormally
    /\ Len(db) >= 2
    /\ returned = <<>>

\* C14: search_medicines_by_ocr_text never raises to its caller: for every
\* text, catalog and internal fault the call ends by returning a list of
\* candidates of catalog rows, and a scan that matches nothing returns [].
C14_NeverRaises ==
    (call.op = "search_medicines_by_ocr_text") =>
        /\ pc # "raised"
        /\ pc = "done" =>
              \A i \in 1..Len(returned) :
                  /\ \E n \in 1..Len(db) : returned[i].medicine = db[n]
                  /\ \E k \in 1..Len(Strategies) : returned[i].match_type = Strategies[k]
        /\ (ReturnedNormally /\ results = <<>>) => returned = <<>>

\* a fault struck after candidates were collected, and the call returned
C14_Witness ==
    /\ call.op = "search_medicines_by_ocr_text"
    /\ pc = "done"
    /\ failed # "none"
    /\ results # <<>>
    /\ returned = <<>>

\* C15: the line boundaries of the recognizer output survive normalization:
\* the text that process_image_file hands to the field extractor has one
\* line per non-blank line the recognizer read, and the manufacturer hint is
\* one of those lines.
NonBlankLines(s) == SelectSeq(split_lines(s), LAMBDA line : strip(line) # EmptyStr)

C15_LineBoundariesSurvive ==
    (call.op = "search_by_ocr" /\ call.image.kind = "picture" /\ ret.kind # "none") =>
        /\ Len(NonBlankLines(ret.extracted_text)) = Len(NonBlankLines(call.image.ocr))
        /\ ret.medicine_info.manufacturer # EmptyStr =>
              \E n \in 1..Len(NonBlankLines(call.image.ocr)) :
                  ret.medicine_info.manufacturer = strip(NonBlankLines(call.image.ocr)[n])

\* C16: clean_extracted_text returns, for every string, a string without
\* leading or trailing whitespace in which every whitespace character is a
\* single space between two other characters (no tab, newline or double
\* space, also where a removed character stood between two spaces), with the
\* words of the input still separated; "" gives "".
RECURSIVE WordsFrom(_, _)
WordsFrom(s, from) ==
    LET starts == {i \in from..Len(s) : ~IsSpace(s[i])}
    IN  IF starts = {} THEN <<>>
        ELSE LET b    == CHOOSE i \in starts : \A j \in starts : i <= j
                 ends == {j \in b..Len(s) : IsSpace(s[j])}
                 e    == IF ends = {} THEN Len(s)
                         ELSE (CHOOSE j \in ends : \A k \in ends : j <= k) - 1
             IN  << SubSeq(s, b, e) >> \o WordsFrom(s, e + 1)

Cleaned == call.op = "clean_extracted_text" /\ ret.kind = "value"

C16_WhitespaceNormalized ==
    Cleaned =>
        LET out == ret.value
        IN  /\ out # EmptyStr => ~IsSpace(out[1]) /\ ~IsSpace(out[Len(out)])
            /\ \A i \in 1..Len(out) :
                  IsSpace(out[i]) => out[i] = 32 /\ ~IsSpace(out[i + 1])
            /\ WordsFrom(out, 1) = WordsFrom(SelectSeq(call.text, IsKept), 1)
            /\ call.text = EmptyStr => out = EmptyStr

\* a removed character stood between two spaces, and one space is left
C16_Witness ==
    /\ Cleaned
    /\ \E i \in 2..(Len(call.text) - 3) :
          /\ ~IsSpace(call.text[i - 1])
          /\ call.text[i] = 32
          /\ ~IsKept(call.text[i + 1])
          /\ call.text[i + 2] = 32
          /\ IsKept(call.text[i + 3]) /\ ~IsSpace(call.text[i + 3])
    /\ \E i \in 1..Len(ret.value) : ret.value[i] = 32

\* C17: the output of clean_extracted_text holds only letters, digits, spaces
\* and the punctuation - . , : ; ( ) [ ] { }; every other character, the
\* underscore included, is removed.
IsLetter(c) == (c >= 65 /\ c <= 90) \/ (c >= 97 /\ c <= 122)

C17_OnlyAllowListedCharacters ==
    Cleaned =>
        \A i \in 1..Len(ret.value) :
            \/ IsLetter(ret.value[i])
            \/ IsDigit(ret.value[i])
            \/ ret.value[i] = 32
            \/ ret.value[i] \in {45, 46, 44, 58, 59, 40, 41, 91, 93, 123, 125}

\* C18: extract_medicine_info sets barcode to the first standalone run of 8
\* to 13 digits (not adjacent to a word character) of the first line that
\* holds one, verbatim; with no such run (only shorter or longer runs, or
\* runs glued to letters) the barcode is absent.
StandaloneRun(line, i, j) ==
    /\ j - i + 1 >= 8
    /\ j - i + 1 <= 13
    /\ \A k \in i..j : IsDigit(line[k])
    /\ i = 1 \/ ~IsWord(line[i - 1])
    /\ j = Len(line) \/ ~IsWord(line[j + 1])

StandaloneRuns(line) ==
    { r \in (1..Len(line)) \X (1..Len(line)) : StandaloneRun(line, r[1], r[2]) }

Extracted == call.op = "extract_medicine_info" /\ ret.kind = "value"

C18_BarcodeIsFirstStandaloneRun ==
    Extracted =>
        LET lines == split_lines(call.text)
            with  == {n \in 1..Len(lines) : StandaloneRuns(lines[n]) # {}}
        IN  IF with = {} THEN ret.value.barcode = EmptyStr
            ELSE LET n == CHOOSE x \in with : \A y \in with : x <= y
                     r == CHOOSE x \in StandaloneRuns(lines[n]) :
                              \A y \in StandaloneRuns(lines[n]) : x[1] <= y[1]
                 IN  ret.value.barcode = SubSeq(lines[n], r[1], r[2])

\* the second line holds the first standalone run; the first line holds
\* only digit runs
C18_Witness ==
    /\ Extracted
    /\ Len(split_lines(call.text)) >= 2
    /\ split_lines(call.text)[1] # EmptyStr
    /\ \A k \in 1..Len(split_lines(call.text)[1]) : IsDigit(split_lines(call.text)[1][k])
    /\ StandaloneRuns(split_lines(call.text)[1]) = {}
    /\ StandaloneRuns(split_lines(call.text)[2]) # {}
    /\ ret.value.barcode # EmptyStr

\* C19: extract_medicine_info sets strength to the matched substring of the
\* first line that holds a number (digits, optionally "." and digits)
\* followed, after optional whitespace, by one of the units mg, mcg, g, ml,
\* IU in any letter case, number and unit standing as words of their own;
\* "500mg" gives "500mg" and "500 MG" gives a strength too.
UnitsInLowerCase ==
    { <<109, 103>>, <<109, 99, 103>>, <<103>>, <<109, 108>>, <<105, 117>> }

NumberThenUnit(line, i, j) ==
    /\ IsDigit(line[i])
    /\ i = 1 \/ ~IsWord(line[i - 1])
    /\ j = Len(line) \/ ~IsWord(line[j + 1])
    /\ \E a \in i..j :
          /\ \A k \in i..a : IsDigit(line[k])
          /\ \E b \in a..j :
                /\ \/ b = a
                   \/ /\ b >= a + 2
                      /\ line[a + 1] = 46
                      /\ \A k \in (a + 2)..b : IsDigit(line[k])
                /\ \E c \in b..(j - 1) :
                      /\ \A k \in (b + 1)..c : IsSpace(line[k])
                      /\ lower(SubSeq(line, c + 1, j)) \in UnitsInLowerCase

NumbersWithUnit(line) ==
    { r \in (1..Len(line)) \X (1..Len(line)) :
        r[1] <= r[2] /\ NumberThenUnit(line, r[1], r[2]) }

C19_StrengthIsFirstNumberWithUnit ==
    Extracted =>
        LET lines == split_lines(call.text)
            with  == {n \in 1..Len(lines) : NumbersWithUnit(lines[n]) # {}}
        IN  /\ IF with = {} THEN ret.value.strength = EmptyStr
               ELSE LET n == CHOOSE x \in with : \A y \in with : x <= y
                        r == CHOOSE x \in NumbersWithUnit(lines[n]) :
                                 \A y \in NumbersWithUnit(lines[n]) : x[1] <= y[1]
                    IN  ret.value.strength = SubSeq(lines[n], r[1], r[2])
            /\ call.text = Strength500mg => ret.value.strength = Strength500mg
            /\ call.text = Strength500_MG => ret.value.strength # EmptyStr

\* a number, a space and an upper-case unit on the second line
C19_Witness ==
    /\ Extracted
    /\ Len(split_lines(call.text)) = 2
    /\ NumbersWithUnit(split_lines(call.text)[1]) = {}
    /\ \E k \in 1..Len(ret.value.strength) : ret.value.strength[k] = 32
    /\ \E k \in 1..Len(ret.value.strength) : ret.value.strength[k] = 77

\* C20: calculate_name_confidence returns a value for every pair of names
\* and ignores letter case: 0.0 when either name is empty or missing, else
\* 1.0 when the names are equal ignoring case, else 0.9 when one contains
\* the other ignoring case, else the edit-distance ratio over 100; the tests
\* are made in this order.
Scored == call.op = "calculate_name_confidence" /\ ret.kind = "value"

Missing(name) == name = EmptyStr \/ name = None

C20_NameConfidenceCases ==
    Scored =>
        LET a == call.extracted_name
            b == call.database_name
        IN  IF Missing(a) \/ Missing(b) THEN ret.value = 0
            ELSE /\ lower(a) = lower(b) => ret.value = 10000
                 /\ (/\ lower(a) # lower(b)
                     /\ \/ Contains(lower(a), lower(b))
                        \/ Contains(lower(b), lower(a))) => ret.value = 9000
                 /\ (/\ ~Contains(lower(a), lower(b))
                     /\ ~Contains(lower(b), lower(a)))
                        => ret.value = 100 * ratio(lower(a), lower(b))
                 /\ ret.value = calculate_name_confidence(lower(a), lower(b))

\* two names that differ only in letter case were scored 1.0
C20_Witness ==
    /\ Scored
    /\ ~Missing(call.extracted_name)
    /\ call.extracted_name # call.database_name
    /\ Len(call.extracted_name) >= 2
    /\ ret.value = 10000

\* C21: while extract_medicine_info goes through the lines in reading order,
\* a barcode, strength or manufacturer that a line has set is not changed by
\* any later line, also when the later line qualifies.
C21_FirstMatchWins ==
    [][ (ret.kind = "loop" /\ ret'.kind = "loop") =>
          /\ ret.value.barcode # EmptyStr => ret'.value.barcode = ret.value.barcode
          /\ ret.value.strength # EmptyStr => ret'.value.strength = ret.value.strength
          /\ ret.value.manufacturer # EmptyStr
                => ret'.value.manufacturer = ret.value.manufacturer ]_vars

\* the loop has passed a second line that qualifies for all three fields,
\* each with another value than the one the field holds
C21_Witness ==
    /\ call.op = "extract_medicine_info"
    /\ call.text # None
    /\ ret.kind = "loop"
    /\ ret.k > 2
    /\ LET line == strip(split_lines(call.text)[ret.k - 1])
       IN  /\ barcode_search(line) \notin {EmptyStr, ret.value.barcode}
           /\ strength_search(line) \notin {EmptyStr, ret.value.strength}
           /\ \E w \in manufacturer_keywords : Contains(lower(line), w)
           /\ ret.value.manufacturer \notin {EmptyStr, line}

\* extract_medicine_info has gone through a text line by line and returned
ExtractedByLines ==
    /\ call.op = "extract_medicine_info"
    /\ ret.kind = "value"
    /\ ~ret.raised

\* the stripped lines of the text
StrippedLines ==
    [ k \in 1..Len(split_lines(call.text)) |-> strip(split_lines(call.text)[k]) ]

\* the line of the least index in the set idx, nothing when idx is empty
FirstLineOf(idx) ==
    IF idx = {} THEN EmptyStr
    ELSE StrippedLines[CHOOSE i \in idx : \A j \in idx : i <= j]

HasManufacturerToken(line) ==
    \E w \in manufacturer_keywords : Contains(lower(line), w)

\* C22: the manufacturer hint is the whole stripped first line whose
\* lower-case form contains ltd, inc, corp, pharma, pharmaceuticals or company;
\* when no line contains one, the hint is empty.
C22_ManufacturerIsFirstLineWithToken ==
    ExtractedByLines =>
        ret.value.manufacturer =
            FirstLineOf({ k \in DOMAIN StrippedLines :
                            HasManufacturerToken(StrippedLines[k]) })

\* the hint is a line with its token in upper case, after a line without one
C22_Witness ==
    /\ ExtractedByLines
    /\ Len(StrippedLines) >= 2
    /\ ~HasManufacturerToken(StrippedLines[1])
    /\ ret.value.manufacturer = UpperMakerLine
    /\ \A w \in manufacturer_keywords : ~Contains(ret.value.manufacturer, w)

HasDosageToken(line) == \E w \in skip_words : Contains(lower(line), w)

\* the lines the claims call brand lines: no dosage-form token, at most 30
\* characters, entirely upper-case
UpperCaseNameLines ==
    { k \in DOMAIN StrippedLines :
        /\ ~HasDosageToken(StrippedLines[k])
        /\ Len(StrippedLines[k]) <= 30
        /\ isupper(StrippedLines[k]) }

\* C23 as stated: the brand hint is the first line without dosage-form token,
\* of at most 30 characters and entirely upper-case, whatever its length.
C23_BrandIsFirstUpperCaseLine ==
    ExtractedByLines => ret.value.brand_name = FirstLineOf(UpperCaseNameLines)

\* C23: the brand hint is the first line without dosage-form token, of at
\* least 3 and at most 30 characters, entirely upper-case; when there is no
\* such line the hint is empty.
C23_BrandIsFirstUpperCaseLineOfThree ==
    ExtractedByLines =>
        ret.value.brand_name =
            FirstLineOf({ k \in UpperCaseNameLines : Len(StrippedLines[k]) >= 3 })

\* a line of two upper-case letters comes first and a later line is the hint
C23_Witness ==
    /\ ExtractedByLines
    /\ Len(StrippedLines) >= 2
    /\ 1 \in UpperCaseNameLines
    /\ Len(StrippedLines[1]) = 2
    /\ ret.value.brand_name # EmptyStr

\* the index of the line chosen as brand hint, 0 when there is none
BrandLineIndex ==
    IF \E k \in DOMAIN StrippedLines :
           StrippedLines[k] = ret.value.brand_name /\ ret.value.brand_name # EmptyStr
    THEN CHOOSE k \in DOMAIN StrippedLines :
           /\ StrippedLines[k] = ret.value.brand_name
           /\ \A j \in 1..(k - 1) : StrippedLines[j] # ret.value.brand_name
    ELSE 0

\* C24: the generic hint is the first line without dosage-form token, of more
\* than 10 and at most 50 characters, that is not the line chosen as brand
\* hint; a second upper-case line of 11 to 30 characters becomes the generic
\* hint.
C24_GenericIsFirstLongLineNotBrand ==
    ExtractedByLines =>
        ret.value.generic_name =
            FirstLineOf({ k \in DOMAIN StrippedLines :
                            /\ ~HasDosageToken(StrippedLines[k])
                            /\ Len(StrippedLines[k]) > 10
                            /\ Len(StrippedLines[k]) <= 50
                            /\ k # BrandLineIndex })

\* C25: extract_medicine_info never raises, and when an exception occurs
\* inside it, it returns the default fields, every one empty.
C25_NeverRaisesAndReturnsDefault ==
    /\ ret.kind # "raised"
    /\ (call.op = "extract_medicine_info" /\ ret.kind = "value" /\ ret.raised)
          => ret.value = DefaultInfo

\* the call with an argument that is no string has returned
C25_Witness ==
    /\ call.op = "extract_medicine_info"
    /\ call.text = None
    /\ ret.kind = "value"
    /\ ret.raised
    /\ ret.value.confidence_score = 0

\* the up to limit entries, in table order, whose brand name contains the
\* brand hint case-insensitively
BrandFieldMatches ==
    Take(SelectSeq(db, LAMBDA m : Contains(lower(m.brand_name),
                                           lower(medicine_info.brand_name))), limit)

\* the entries that have a candidate tagged brand_name
BrandCandidates ==
    { results[i].medicine : i \in { j \in 1..Len(results) :
                                      results[j].match_type = "brand_name" } }

\* C26: the brand-name strategy searches the brand-name field only: the
\* candidates tagged brand_name are candidates of the up to limit entries whose
\* brand name contains the hint, and entries that match the hint through
\* another field take none of the limit from them.
C26_BrandStrategySearchesBrandFieldOnly ==
    (pc \in {"generic_name", "manufacturer", "fuzzy"}
        /\ medicine_info.brand_name # EmptyStr)
      => BrandCandidates = { BrandFieldMatches[i] : i \in 1..Len(BrandFieldMatches) }

\* the candidate r, tagged manufacturer, has 0.8 times a name confidence above
\* 0.8 as its confidence (a float product, at most one unit of 1/10000 above
\* the exact product), which lies in (0.64, 0.8]
ManufacturerScore(r) ==
    LET nc == calculate_name_confidence(medicine_info.manufacturer,
                                        r.medicine.manufacturer)
    IN  /\ nc > 8000
        /\ 10 * r.confidence_score >= 8 * nc
        /\ 10 * r.confidence_score <= 8 * nc + 10
        /\ r.confidence_score > 6400
        /\ r.confidence_score <= 8000

\* no candidate tagged manufacturer stands before one tagged barcode
BarcodeBeforeManufacturer(lst) ==
    \A i, j \in 1..Len(lst) :
        (lst[i].match_type = "manufacturer" /\ lst[j].match_type = "barcode") => j < i

\* C27: a candidate tagged manufacturer has the confidence 0.8 times the name
\* confidence of manufacturer hint and entry's manufacturer, which is above
\* 0.8; its confidence is in (0.64, 0.8], and it never ranks above a barcode
\* candidate.
C27_ManufacturerScoreIsWeighted ==
    /\ \A i \in 1..Len(results) :
          results[i].match_type = "manufacturer" => ManufacturerScore(results[i])
    /\ \A i \in 1..Len(returned) :
          returned[i].match_type = "manufacturer" => ManufacturerScore(returned[i])
    /\ BarcodeBeforeManufacturer(unique_results)
    /\ BarcodeBeforeManufacturer(returned)

\* a barcode candidate and a manufacturer candidate of name confidence 0.9 are
\* returned together
C27_Witness ==
    /\ pc = "done"
    /\ failed = "none"
    /\ \E i, j \in 1..Len(returned) :
          /\ returned[i].match_type = "barcode"
          /\ returned[j].match_type = "manufacturer"
          /\ calculate_name_confidence(medicine_info.manufacturer,
                                       returned[j].medicine.manufacturer) = 9000

\* the fuzzy strategy has run
FuzzyDone ==
    /\ call.op = "search_medicines_by_ocr_text"
    /\ pc = "done"
    /\ failed = "none"

BrandSimilarity(m) == partial_ratio(lower(text), lower(m.brand_name))
GenericSimilarity(m) == partial_ratio(lower(text), lower(m.generic_name))
ManufacturerSimilarity(m) == partial_ratio(lower(text), lower(m.manufacturer))

\* the largest of the three similarities of the entry m
BestSimilarity(m) ==
    LET b == BrandSimilarity(m)
        g == GenericSimilarity(m)
        f == ManufacturerSimilarity(m)
    IN  IF b >= g /\ b >= f THEN b ELSE IF g >= f THEN g ELSE f

\* the field of m that reaches the largest similarity, brand before generic
\* before manufacturer
BestField(m) ==
    LET best == BestSimilarity(m)
    IN  IF BrandSimilarity(m) = best THEN m.brand_name
        ELSE IF GenericSimilarity(m) = best THEN m.generic_name
        ELSE m.manufacturer

FuzzyCandidates == SelectSeq(results, LAMBDA r : r.match_type = "fuzzy")

\* C28: the fuzzy strategy runs on every search, over the first 100 entries:
\* an entry among them has a fuzzy candidate exactly when its largest
\* similarity is above 70, with confidence largest/100 and the field that
\* reaches it as matched_text (brand, then generic, then manufacturer on
\* ties); an entry behind the first 100 has none.
C28_FuzzyOverFirstHundred ==
    FuzzyDone =>
        /\ \A i \in 1..Len(db) :
              (\E k \in 1..Len(FuzzyCandidates) : FuzzyCandidates[k].medicine = db[i])
                <=> (i <= 100 /\ BestSimilarity(db[i]) > 70)
        /\ \A k \in 1..Len(FuzzyCandidates) :
              /\ FuzzyCandidates[k].confidence_score
                    = 100 * BestSimilarity(FuzzyCandidates[k].medicine)
              /\ FuzzyCandidates[k].matched_text = BestField(FuzzyCandidates[k].medicine)
              /\ \A j \in 1..Len(FuzzyCandidates) :
                    FuzzyCandidates[j].medicine = FuzzyCandidates[k].medicine => j = k

\* no field was extracted; entry 100 has a fuzzy candidate and entry 101,
\* whose similarity is above 70 too, has none
C28_Witness ==
    /\ FuzzyDone
    /\ medicine_info = DefaultInfo
    /\ Len(db) > 100
    /\ BestSimilarity(db[101]) > 70
    /\ \E k \in 1..Len(FuzzyCandidates) : FuzzyCandidates[k].medicine = db[100]

\* C30: clean_extracted_text is idempotent: cleaning a cleaned text gives the
\* cleaned text again.
C30_CleanIsIdempotent ==
    Cleaned => clean_extracted_text(ret.value) = ret.value

\* the text begins with a removed character and a space, which leaves a space
\* at the edge before the final strip, and something is left of it
C30_Witness ==
    /\ Cleaned
    /\ Len(call.text) >= 3
    /\ call.text[1] = 64
    /\ call.text[2] = 32
    /\ ret.value # EmptyStr
    /\ ret.value # call.text

\* C29: two scans in flight over the same table are independent and
\* read-only: no step of either writes to the table, and in every interleaving
\* of their steps each scan returns what it returns when it runs alone.
C29_ScansAreIndependent ==
    [][ /\ db' = db
        /\ (pc # "done" /\ pc' = "done")
              => returned' = search_medicines_by_ocr_text(db, text, limit)
        /\ pc = "done" => (pc' = "done" /\ returned' = returned)
        /\ (ret.pc # "done" /\ ret'.pc = "done")
              => ret'.returned = search_medicines_by_ocr_text(db, call.text, call.limit)
        /\ ret.pc = "done" => (ret'.pc = "done" /\ ret'.returned = ret.returned)
      ]_vars

\* both scans have returned something, the second scan took its first step
\* after the first scan had produced candidates, and the two results differ
C29_Witness ==
    /\ call.op = "search_medicines_by_ocr_text"
    /\ ret.kind = "locals"
    /\ pc = "done"
    /\ ret.pc = "done"
    /\ returned # <<>>
    /\ ret.returned # <<>>
    /\ ret.returned # returned

====
